---- MODULE Spec2Model ----
(***************************************************************************)
(* Model of bot.py: a DEX trading client with three entry points           *)
(* (check_token_balance, swap_buy, swap_sell) that talk to a ledger        *)
(* (web3.eth), a signer (account) and two contracts (token, router).       *)
(*                                                                         *)
(* Python integers are unbounded and Python floats are IEEE-754 doubles;   *)
(* the amounts of the program (wei, token base units) exceed 2^31, so they *)
(* are carried as bit sequences (most significant bit first, no leading    *)
(* zero, <<>> is 0) and the float operations of the source are computed    *)
(* with their 53-bit round-half-even rounding.                             *)
(***************************************************************************)
EXTENDS Integers, Sequences, FiniteSets, TLC

(***************************************************************************)
(* Unbounded naturals (Python int) as limb sequences in base 2^15, most    *)
(* significant limb first, no leading zero limb; <<>> is 0.                *)
(***************************************************************************)
LimbBits == 15

Base == 2^LimbBits

RECURSIVE Strip(_)
Strip(b) == IF b = <<>> THEN <<>> ELSE IF b[1] = 0 THEN Strip(Tail(b)) ELSE b

Front(b) == SubSeq(b, 1, Len(b) - 1)

NatToBig(n) ==
    IF n = 0 THEN <<>>
    ELSE IF n < Base THEN <<n>>
    ELSE IF n < Base * Base THEN <<n \div Base, n % Base>>
    ELSE <<n \div (Base * Base), (n \div Base) % Base, n % Base>>

\* b * c + carry, for a multiplier c and a carry below 2^16
RECURSIVE MulAcc(_, _, _)
MulAcc(b, c, carry) ==
    IF b = <<>> THEN NatToBig(carry)
    ELSE LET t == b[Len(b)] * c + carry
         IN  Append(MulAcc(Front(b), c, t \div Base), t % Base)

MulSmall(b, c) == Strip(MulAcc(b, c, 0))

RECURSIVE Pow10Mul(_, _)
Pow10Mul(b, n) ==
    IF n = 0 THEN b
    ELSE IF n >= 4 THEN Pow10Mul(MulSmall(b, 10000), n - 4)
    ELSE Pow10Mul(MulSmall(b, 10), n - 1)

\* decimal digits (most significant first) to a big natural
RECURSIVE FromDec(_)
FromDec(ds) ==
    IF ds = <<>> THEN <<>>
    ELSE Strip(MulAcc(FromDec(Front(ds)), 10, ds[Len(ds)]))

\* long division of b by a divisor d below 2^16: quotient and remainder
RECURSIVE DivAcc(_, _, _, _, _)
DivAcc(b, d, i, rem, q) ==
    IF i > Len(b) THEN [q |-> Strip(q), r |-> rem]
    ELSE LET t == rem * Base + b[i]
         IN  DivAcc(b, d, i + 1, t % d, Append(q, t \div d))

DivSmall(b, d) == DivAcc(b, d, 1, 0, <<>>)

\* the bits of a big natural, most significant first, no leading zero
ToBits(b) ==
    LET n   == Len(b) * LimbBits
        raw == [i \in 1..n |->
                  (b[((i - 1) \div LimbBits) + 1]
                      \div 2^(LimbBits - 1 - ((i - 1) % LimbBits))) % 2]
    IN  IF \A i \in 1..n : raw[i] = 0 THEN <<>>
        ELSE LET f == CHOOSE i \in 1..n :
                          raw[i] = 1 /\ \A j \in 1..(i - 1) : raw[j] = 0
             IN  SubSeq(raw, f, n)

RECURSIVE LimbOf(_, _, _)
LimbOf(bits, lo, hi) ==
    IF hi < lo THEN 0 ELSE 2 * LimbOf(bits, lo, hi - 1) + bits[hi]

\* a bit sequence back to a big natural
FromBits(bits) ==
    LET n   == (Len(bits) + LimbBits - 1) \div LimbBits
        pad == n * LimbBits - Len(bits)
        p   == [i \in 1..(n * LimbBits) |-> IF i <= pad THEN 0 ELSE bits[i - pad]]
    IN  Strip([j \in 1..n |-> LimbOf(p, (j - 1) * LimbBits + 1, j * LimbBits)])

Zeros(n) == [i \in 1..n |-> 0]

\* signed Python int: sign and magnitude
PyInt(neg, mag) == [neg |-> neg /\ mag # <<>>, mag |-> mag]

(***************************************************************************)
(* IEEE-754 double (Python float): value m * 2^e, m a bit sequence of at   *)
(* most 53 bits.                                                           *)
(***************************************************************************)
MantBits == 53

IncBits(m) ==
    IF \A i \in 1..Len(m) : m[i] = 1 THEN <<1>> \o Zeros(Len(m))
    ELSE LET k == CHOOSE i \in 1..Len(m) :
                      m[i] = 0 /\ \A j \in (i + 1)..Len(m) : m[j] = 1
         IN  [i \in 1..Len(m) |-> IF i < k THEN m[i] ELSE IF i = k THEN 1 ELSE 0]

\* (q + a fraction that is nonzero iff sticky) * 2^e, rounded half-even to 53 bits
Round53(q, sticky, e) ==
    IF Len(q) <= MantBits THEN [m |-> q, e |-> e]
    ELSE LET drop == Len(q) - MantBits
             m0   == SubSeq(q, 1, MantBits)
             rnd  == q[MantBits + 1]
             rest == \E i \in (MantBits + 2)..Len(q) : q[i] = 1
             up   == rnd = 1 /\ (rest \/ sticky \/ m0[MantBits] = 1)
             m1   == IF up THEN IncBits(m0) ELSE m0
         IN  IF Len(m1) > MantBits
             THEN [m |-> SubSeq(m1, 1, MantBits), e |-> e + drop + 1]
             ELSE [m |-> m1, e |-> e + drop]

\* b divided by the product of the small divisors ds: quotient, and whether
\* anything was left over
RECURSIVE DivChain(_, _, _)
DivChain(b, ds, inexact) ==
    IF ds = <<>> THEN [q |-> b, inexact |-> inexact]
    ELSE LET qr == DivSmall(b, ds[1])
         IN  DivChain(qr.q, Tail(ds), inexact \/ qr.r # 0)

\* the correctly rounded quotient n / (product of ds): Python int / int and
\* float() of a decimal literal
TrueDiv(n, ds) ==
    IF n = <<>> THEN [m |-> <<>>, e |-> 0]
    ELSE LET nb == ToBits(n)
             s  == IF Len(nb) >= 124 THEN 0 ELSE 124 - Len(nb)
             qr == DivChain(FromBits(nb \o Zeros(s)), ds, FALSE)
         IN  Round53(ToBits(qr.q), qr.inexact, 0 - s)

\* the divisors of 10^k, each below 2^16
RECURSIVE Pow10Divs(_)
Pow10Divs(k) ==
    IF k = 0 THEN <<>>
    ELSE IF k >= 4 THEN <<10000>> \o Pow10Divs(k - 4)
    ELSE <<10>> \o Pow10Divs(k - 1)

\* float * 10**n (10**n is exact as a double for n <= 22)
FloatMulPow10(f, n) == Round53(ToBits(Pow10Mul(FromBits(f.m), n)), FALSE, f.e)

\* int(float): truncation toward zero
FloatToInt(f) ==
    IF f.m = <<>> THEN <<>>
    ELSE IF f.e >= 0 THEN FromBits(f.m \o Zeros(f.e))
    ELSE IF 0 - f.e >= Len(f.m) THEN <<>>
    ELSE FromBits(SubSeq(f.m, 1, Len(f.m) + f.e))

(***************************************************************************)
(* Bounds of the model.                                                    *)
(***************************************************************************)
\* operations invoked in one run
MaxOps == 2

\* caller threads of the concurrent specification
MaxThreads == 2

(***************************************************************************)
(* Configuration of the module (bot.py, lines 104-112) and input sets.     *)
(***************************************************************************)
ROUTER_ADDRESS == "0x7a250d5630B4cF539739dF2C5dAcb4c659F2488D"

WETH_ADDRESS == "0xC02aaA39b223FE8D0A0e5C4F27eAD9083C756Cc2"

\* account.address, drawn once when the module is loaded
ADDRESS == "0xAccount"

Tokens == {"0x000000000000000000000000000000000000dead"}

\* a decimal literal num / 10^scale, negated when neg
Dec(neg, num, scale) == [neg |-> neg, num |-> num, scale |-> scale]

\* eth_amount arguments: 0.01, 1.1 and -0.5
EthAmounts == {Dec(FALSE, 1, 2), Dec(FALSE, 11, 1), Dec(TRUE, 5, 1)}

\* percentage arguments
Percentages == {-10, 0, 50, 100, 150}

\* balances the token reports: 199 and 10^18 - 1
Balances ==
    {NatToBig(199),
     FromDec(<<9, 9, 9, 9, 9, 9, 9, 9, 9, 9, 9, 9, 9, 9, 9, 9, 9, 9>>)}

\* the clock when the run starts
StartTime == 1000

\* the times _now_ts() may return during a run
Timestamps == {StartTime, StartTime + 1}

\* the counts get_transaction_count may return
Counts == {0, 1}

\* transaction hashes send_raw_transaction may return
TxHashes == {"0x1f"}

OpIds == 1..MaxOps

(***************************************************************************)
(* Pure functions of the source.                                           *)
(***************************************************************************)
\* _to_wei(val, unit): int(float(val) * 10**18), int(float(val) * 10**9), int(val)
_to_wei(val, unit) ==
    LET f == TrueDiv(NatToBig(val.num), Pow10Divs(val.scale))
    IN  IF unit = "ether" THEN PyInt(val.neg, FloatToInt(FloatMulPow10(f, 18)))
        ELSE IF unit = "gwei" THEN PyInt(val.neg, FloatToInt(FloatMulPow10(f, 9)))
        ELSE PyInt(val.neg, DivChain(NatToBig(val.num), Pow10Divs(val.scale), FALSE).q)

Abs(n) == IF n < 0 THEN 0 - n ELSE n

\* sell_amount = int(balance * percentage / 100): int * int, true division, int()
SellAmountOf(balance, percentage) ==
    PyInt(percentage < 0,
          FloatToInt(TrueDiv(MulSmall(balance, Abs(percentage)), <<100>>)))

\* f"{balance:.4f}": the float in ten-thousandths, rounded half-even
Fixed4(f) ==
    LET M == ToBits(MulSmall(FromBits(f.m), 10000))
        k == 0 - f.e
    IN  IF f.e >= 0 THEN FromBits(IF M = <<>> THEN <<>> ELSE M \o Zeros(f.e))
        ELSE IF k > Len(M) THEN <<>>
        ELSE LET ip   == SubSeq(M, 1, Len(M) - k)
                 rnd  == M[Len(M) - k + 1]
                 rest == \E i \in (Len(M) - k + 2)..Len(M) : M[i] = 1
                 odd  == ip # <<>> /\ ip[Len(ip)] = 1
             IN  FromBits(IF rnd = 1 /\ (rest \/ odd)
                          THEN (IF ip = <<>> THEN <<1>> ELSE IncBits(ip))
                          ELSE ip)

\* balance = raw_balance / (10 ** decimals); f"{balance:.4f} {symbol}"
FormatBalance(raw_balance, decimals, symbol) ==
    [amount |-> Fixed4(TrueDiv(raw_balance, Pow10Divs(decimals))), symbol |-> symbol]

\* mutant: the deadline is computed once, when the run starts
DeadlineCached(now) == StartTime + 1200

\* deadline = now + 1200
DeadlineOf(now) == now + 1200

\* DummyFunction.build_transaction: the dict of the transaction; data stands for
\* the encoded call (function and arguments) the transaction is built from
build_transaction(fn, args, txdict) ==
    [from     |-> txdict.from,
     to       |-> "0xDummy",
     value    |-> txdict.value,
     gas      |-> txdict.gas,
     gasPrice |-> txdict.gasPrice,
     nonce    |-> txdict.nonce,
     data     |-> [fn |-> fn, args |-> args]]

\* DummyAccount.sign_transaction: a Signed object; of records what was signed
sign_transaction(tx) == [rawTransaction |-> "dummy_tx", of |-> tx]

GasPrice == _to_wei(Dec(FALSE, 5, 0), "gwei")

ZeroInt == PyInt(FALSE, <<>>)

NoTx == [none |-> TRUE]

(***************************************************************************)
(* State.                                                                  *)
(***************************************************************************)
VARIABLES
    frame,    \* frame[id]: the locals and position of the id-th invocation
    nops,     \* number of invocations so far
    sent,     \* the transactions send_raw_transaction accepted, in order
    clock,    \* the last time _now_ts() returned
    threads   \* number of caller threads

vars == <<frame, nops, sent, clock, threads>>

IdleFrame ==
    [op |-> "none", pc |-> "idle", token_address |-> "none",
     eth_amount |-> Dec(FALSE, 0, 0), percentage |-> 0,
     balance |-> <<>>, decimals |-> -1, symbol |-> "none",
     sell_amount |-> ZeroInt, now |-> -1, deadline |-> -1,
     nonce |-> -1, path |-> <<>>,
     tx |-> NoTx, signed_tx |-> NoTx,
     approve_tx |-> NoTx, signed_approve |-> NoTx,
     sell_tx |-> NoTx, signed_sell |-> NoTx,
     calls |-> <<>>, result |-> <<>>, err |-> "none"]

Init ==
    /\ frame = [id \in OpIds |-> IdleFrame]
    /\ nops = 0
    /\ sent = <<>>
    /\ clock = StartTime
    /\ threads = 1

InitConc ==
    /\ frame = [id \in OpIds |-> IdleFrame]
    /\ nops = 0
    /\ sent = <<>>
    /\ clock = StartTime
    /\ threads = MaxThreads

Running(id) == frame[id].pc \notin {"idle", "done", "raised"}

NumRunning == Cardinality({id \in OpIds : Running(id)})

\* a caller thread is free to invoke the next operation
CanInvoke(id) ==
    /\ id = nops + 1
    /\ id \in OpIds
    /\ NumRunning < threads

Set(id, f) == frame' = [frame EXCEPT ![id] = f]

(***************************************************************************)
(* Order of the collaborator calls in each function of the source.         *)
(***************************************************************************)
CheckSteps == <<"check_balanceOf", "check_decimals", "check_symbol">>

BuySteps == <<"buy_get_block", "buy_nonce", "buy_build", "buy_sign", "buy_send">>

\* mutant: the swap is read for and built before the approve is sent
SellStepsSwapEarly ==
    <<"sell_balanceOf", "sell_decimals",
      "approve_nonce", "approve_build", "approve_sign",
      "sell_get_block", "sell_nonce", "sell_build",
      "approve_send", "sell_sign", "sell_send">>

SellSteps ==
    <<"sell_balanceOf", "sell_decimals",
      "approve_nonce", "approve_build", "approve_sign", "approve_send",
      "sell_get_block", "sell_nonce", "sell_build", "sell_sign", "sell_send">>

StepsOf(op) ==
    IF op = "check_token_balance" THEN CheckSteps
    ELSE IF op = "swap_buy" THEN BuySteps
    ELSE SellSteps

IndexOf(seq, x) == CHOOSE i \in 1..Len(seq) : seq[i] = x

\* mutant: swap_sell reads the timestamp and the count for the swap before it
\* sends the approve
NextPcReadsEarly(op, pc) ==
    LET steps == IF op = "swap_sell"
                 THEN <<"sell_balanceOf", "sell_decimals",
                        "approve_nonce", "approve_build", "approve_sign",
                        "sell_get_block", "sell_nonce", "approve_send",
                        "sell_build", "sell_sign", "sell_send">>
                 ELSE StepsOf(op)
        i     == IndexOf(steps, pc)
    IN  IF i = Len(steps) THEN "done" ELSE steps[i + 1]

\* the statement that follows pc in op, "done" after the last one
NextPc(op, pc) ==
    LET steps == StepsOf(op)
        i     == IndexOf(steps, pc)
    IN  IF i = Len(steps) THEN "done" ELSE steps[i + 1]

\* the collaborator call made at each position
CallAt(pc) ==
    CASE pc = "check_balanceOf" -> <<"balanceOf", "token">>
      [] pc = "check_decimals"  -> <<"decimals", "token">>
      [] pc = "check_symbol"    -> <<"symbol", "token">>
      [] pc = "buy_get_block"   -> <<"get_block", "latest">>
      [] pc = "buy_nonce"       -> <<"get_transaction_count", "swapExactETHForTokens">>
      [] pc = "buy_build"       -> <<"build_transaction", "swapExactETHForTokens">>
      [] pc = "buy_sign"        -> <<"sign_transaction", "swapExactETHForTokens">>
      [] pc = "buy_send"        -> <<"send_raw_transaction", "swapExactETHForTokens">>
      [] pc = "sell_balanceOf"  -> <<"balanceOf", "token">>
      [] pc = "sell_decimals"   -> <<"decimals", "token">>
      [] pc = "approve_nonce"   -> <<"get_transaction_count", "approve">>
      [] pc = "approve_build"   -> <<"build_transaction", "approve">>
      [] pc = "approve_sign"    -> <<"sign_transaction", "approve">>
      [] pc = "approve_send"    -> <<"send_raw_transaction", "approve">>
      [] pc = "sell_get_block"  -> <<"get_block", "latest">>
      [] pc = "sell_nonce"      -> <<"get_transaction_count", "swapExactTokensForETH">>
      [] pc = "sell_build"      -> <<"build_transaction", "swapExactTokensForETH">>
      [] pc = "sell_sign"       -> <<"sign_transaction", "swapExactTokensForETH">>
      [] pc = "sell_send"       -> <<"send_raw_transaction", "swapExactTokensForETH">>

\* the record of the call made at pc: the function called, what it was called
\* for, whether it raised, the count or timestamp it returned (-1 for the other
\* calls) and, for a count read, how many transactions the ledger had accepted
\* by then
Recorded(pc, ret, raised) ==
    [call   |-> CallAt(pc)[1],
     of     |-> CallAt(pc)[2],
     raised |-> raised,
     ret    |-> ret,
     seen   |-> IF CallAt(pc)[1] = "get_transaction_count" THEN Len(sent) ELSE -1]

\* the frame after the call at its position returned ret: the call is recorded
\* and control moves to the next statement
Step(f, ret) ==
    [f EXCEPT !.calls = Append(f.calls, Recorded(f.pc, ret, FALSE)),
              !.pc = NextPc(f.op, f.pc)]

\* the calls of a function that is over: their order stays on record, what they
\* returned to the locals does not
Forget(calls) ==
    [i \in 1..Len(calls) |-> [calls[i] EXCEPT !.ret = -1, !.seen = -1]]

\* the frame after its last call returned and the function returned result:
\* the locals are gone; what the function was called on, the order of its
\* calls and the result remain
Return(f, result) ==
    [IdleFrame EXCEPT !.op = f.op,
                      !.token_address = f.token_address,
                      !.pc = NextPc(f.op, f.pc),
                      !.calls = Forget(Append(f.calls, Recorded(f.pc, -1, FALSE))),
                      !.result = result]

(***************************************************************************)
(* check_token_balance                                                     *)
(***************************************************************************)
CheckTokenBalance(id, token_address) ==
    /\ CanInvoke(id)
    /\ nops' = id
    /\ Set(id, [frame[id] EXCEPT !.op = "check_token_balance",
                                 !.token_address = token_address,
                                 !.pc = CheckSteps[1]])
    /\ UNCHANGED <<sent, clock, threads>>

CheckBalanceOf(id) ==
    /\ frame[id].pc = "check_balanceOf"
    /\ \E b \in Balances :
           Set(id, [Step(frame[id], -1) EXCEPT !.balance = b])
    /\ UNCHANGED <<nops, sent, clock, threads>>

\* mutant: the balance check also reads the transaction count of the account
CheckDecimalsReadsCount(id) ==
    /\ frame[id].pc = "check_decimals"
    /\ LET f == Step(frame[id], -1)
       IN  Set(id, [f EXCEPT !.decimals = 18,
                             !.calls = Append(f.calls,
                                              [call |-> "get_transaction_count",
                                               of |-> "token", raised |-> FALSE,
                                               ret |-> -1, seen |-> -1])])
    /\ UNCHANGED <<nops, sent, clock, threads>>

CheckDecimals(id) ==
    /\ frame[id].pc = "check_decimals"
    /\ Set(id, [Step(frame[id], -1) EXCEPT !.decimals = 18])
    /\ UNCHANGED <<nops, sent, clock, threads>>

CheckSymbol(id) ==
    /\ frame[id].pc = "check_symbol"
    /\ LET f == frame[id]
       IN  Set(id, Return(f, <<FormatBalance(f.balance, f.decimals, "TOK")>>))
    /\ UNCHANGED <<nops, sent, clock, threads>>

(***************************************************************************)
(* swap_buy                                                                *)
(***************************************************************************)
SwapBuy(id, token_address, eth_amount) ==
    /\ CanInvoke(id)
    /\ nops' = id
    /\ Set(id, [frame[id] EXCEPT !.op = "swap_buy",
                                 !.token_address = token_address,
                                 !.eth_amount = eth_amount,
                                 !.path = <<WETH_ADDRESS, token_address>>,
                                 !.pc = BuySteps[1]])
    /\ UNCHANGED <<sent, clock, threads>>

\* _now_ts(): the time of the call, not before the last time read
Times == {t \in Timestamps : t >= clock}

BuyGetBlock(id) ==
    /\ frame[id].pc = "buy_get_block"
    /\ \E t \in Times :
          /\ clock' = t
          /\ Set(id, [Step(frame[id], t) EXCEPT !.now = t,
                                              !.deadline = DeadlineOf(t)])
    /\ UNCHANGED <<nops, sent, threads>>

BuyNonce(id) ==
    /\ frame[id].pc = "buy_nonce"
    /\ \E n \in Counts :
           Set(id, [Step(frame[id], n) EXCEPT !.nonce = n])
    /\ UNCHANGED <<nops, sent, clock, threads>>

BuyTx(f) ==
    build_transaction("swapExactETHForTokens",
                      <<ZeroInt, f.path, ADDRESS, f.deadline>>,
                      [from |-> ADDRESS,
                       value |-> _to_wei(f.eth_amount, "ether"),
                       gas |-> 250000,
                       gasPrice |-> GasPrice,
                       nonce |-> f.nonce])

BuyBuild(id) ==
    /\ frame[id].pc = "buy_build"
    /\ Set(id, [Step(frame[id], -1) EXCEPT !.tx = BuyTx(frame[id])])
    /\ UNCHANGED <<nops, sent, clock, threads>>

BuySign(id) ==
    /\ frame[id].pc = "buy_sign"
    /\ Set(id, [Step(frame[id], -1) EXCEPT !.signed_tx = sign_transaction(frame[id].tx)])
    /\ UNCHANGED <<nops, sent, clock, threads>>

\* the deadline argument of a router call, -1 for a call that has none
DeadlineArg(data) ==
    IF data.fn = "approve" THEN -1 ELSE data.args[Len(data.args)]

\* what the last call named call returned to f, -1 if there was none
LastRet(f, call) ==
    LET made == {i \in 1..Len(f.calls) : f.calls[i].call = call}
    IN  IF made = {} THEN -1
        ELSE f.calls[CHOOSE i \in made : \A j \in made : j <= i].ret

LastSeen(f, call) ==
    LET made == {i \in 1..Len(f.calls) : f.calls[i].call = call}
    IN  IF made = {} THEN -1
        ELSE f.calls[CHOOSE i \in made : \A j \in made : j <= i].seen

\* mutant: the ledger is handed the signed transaction a second time
SubmitRetried(id, signed) ==
    LET entry == [op       |-> id,
                  fn       |-> signed.of.data.fn,
                  nonce    |-> signed.of.nonce,
                  deadline |-> DeadlineArg(signed.of.data),
                  count    |-> LastRet(frame[id], "get_transaction_count"),
                  seen     |-> LastSeen(frame[id], "get_transaction_count"),
                  now      |-> LastRet(frame[id], "get_block")]
    IN  Append(Append(sent, entry), entry)

\* send_raw_transaction: the ledger takes the signed transaction of invocation
\* id. Its history keeps which call the transaction carries, its nonce and its
\* deadline, and what the ledger had last answered this invocation: the count
\* (with the number of transactions accepted by then) and the timestamp
Submit(id, signed) ==
    Append(sent, [op       |-> id,
                  fn       |-> signed.of.data.fn,
                  nonce    |-> signed.of.nonce,
                  deadline |-> DeadlineArg(signed.of.data),
                  count    |-> LastRet(frame[id], "get_transaction_count"),
                  seen     |-> LastSeen(frame[id], "get_transaction_count"),
                  now      |-> LastRet(frame[id], "get_block")])

BuySend(id) ==
    /\ frame[id].pc = "buy_send"
    /\ sent' = Submit(id, frame[id].signed_tx)
    /\ \E h \in TxHashes :
           Set(id, Return(frame[id], <<"Buy Tx Sent", h>>))
    /\ UNCHANGED <<nops, clock, threads>>

(***************************************************************************)
(* swap_sell                                                               *)
(***************************************************************************)
\* mutant: a percentage of 0 is refused on entry
SwapSellZeroRefused(id, token_address, percentage) ==
    /\ CanInvoke(id)
    /\ nops' = id
    /\ Set(id, [frame[id] EXCEPT !.op = "swap_sell",
                                 !.token_address = token_address,
                                 !.percentage = percentage,
                                 !.err = IF percentage = 0 THEN "InvalidPercentage" ELSE "none",
                                 !.pc = IF percentage = 0 THEN "raised" ELSE SellSteps[1]])
    /\ UNCHANGED <<sent, clock, threads>>

SwapSell(id, token_address, percentage) ==
    /\ CanInvoke(id)
    /\ nops' = id
    /\ Set(id, [frame[id] EXCEPT !.op = "swap_sell",
                                 !.token_address = token_address,
                                 !.percentage = percentage,
                                 !.pc = SellSteps[1]])
    /\ UNCHANGED <<sent, clock, threads>>

SellBalanceOf(id) ==
    /\ frame[id].pc = "sell_balanceOf"
    /\ \E b \in Balances :
           Set(id, [Step(frame[id], -1) EXCEPT !.balance = b])
    /\ UNCHANGED <<nops, sent, clock, threads>>

SellDecimals(id) ==
    /\ frame[id].pc = "sell_decimals"
    /\ LET f == frame[id]
       IN  Set(id, [Step(f, -1) EXCEPT
                      !.decimals = 18,
                      !.sell_amount = SellAmountOf(f.balance, f.percentage)])
    /\ UNCHANGED <<nops, sent, clock, threads>>

ApproveNonce(id) ==
    /\ frame[id].pc = "approve_nonce"
    /\ \E n \in Counts :
           Set(id, [Step(frame[id], n) EXCEPT !.nonce = n])
    /\ UNCHANGED <<nops, sent, clock, threads>>

\* mutant: the whole balance is approved instead of the sell amount
ApproveTxWholeBalance(f) ==
    build_transaction("approve",
                      <<ROUTER_ADDRESS, PyInt(FALSE, f.balance)>>,
                      [from |-> ADDRESS,
                       value |-> ZeroInt,
                       gas |-> 80000,
                       gasPrice |-> GasPrice,
                       nonce |-> f.nonce])

ApproveTx(f) ==
    build_transaction("approve",
                      <<ROUTER_ADDRESS, f.sell_amount>>,
                      [from |-> ADDRESS,
                       value |-> ZeroInt,
                       gas |-> 80000,
                       gasPrice |-> GasPrice,
                       nonce |-> f.nonce])

ApproveBuild(id) ==
    /\ frame[id].pc = "approve_build"
    /\ Set(id, [Step(frame[id], -1) EXCEPT !.approve_tx = ApproveTx(frame[id])])
    /\ UNCHANGED <<nops, sent, clock, threads>>

ApproveSign(id) ==
    /\ frame[id].pc = "approve_sign"
    /\ Set(id, [Step(frame[id], -1) EXCEPT
                  !.signed_approve = sign_transaction(frame[id].approve_tx)])
    /\ UNCHANGED <<nops, sent, clock, threads>>

ApproveSend(id) ==
    /\ frame[id].pc = "approve_send"
    /\ sent' = Submit(id, frame[id].signed_approve)
    /\ Set(id, Step(frame[id], -1))
    /\ UNCHANGED <<nops, clock, threads>>

SellGetBlock(id) ==
    /\ frame[id].pc = "sell_get_block"
    /\ \E t \in Times :
          /\ clock' = t
          /\ Set(id, [Step(frame[id], t) EXCEPT
                        !.path = <<frame[id].token_address, WETH_ADDRESS>>,
                        !.now = t,
                        !.deadline = DeadlineOf(t)])
    /\ UNCHANGED <<nops, sent, threads>>

\* mutant: the swap reuses the nonce the approve was built with
SellNonceReused(f, count) == f.nonce

\* the nonce the swap transaction of a sell gets from the count just read
SellNonceOf(f, count) == count

SellNonce(id) ==
    /\ frame[id].pc = "sell_nonce"
    /\ \E n \in Counts :
           Set(id, [Step(frame[id], n) EXCEPT !.nonce = SellNonceOf(frame[id], n)])
    /\ UNCHANGED <<nops, sent, clock, threads>>

\* mutant: the swap of a sell is payable, the sell amount going as its value
SellTxPayable(f) ==
    build_transaction("swapExactTokensForETH",
                      <<f.sell_amount, ZeroInt, f.path, ADDRESS, f.deadline>>,
                      [from |-> ADDRESS,
                       value |-> f.sell_amount,
                       gas |-> 250000,
                       gasPrice |-> GasPrice,
                       nonce |-> f.nonce])

SellTx(f) ==
    build_transaction("swapExactTokensForETH",
                      <<f.sell_amount, ZeroInt, f.path, ADDRESS, f.deadline>>,
                      [from |-> ADDRESS,
                       value |-> ZeroInt,
                       gas |-> 250000,
                       gasPrice |-> GasPrice,
                       nonce |-> f.nonce])

SellBuild(id) ==
    /\ frame[id].pc = "sell_build"
    /\ Set(id, [Step(frame[id], -1) EXCEPT !.sell_tx = SellTx(frame[id])])
    /\ UNCHANGED <<nops, sent, clock, threads>>

SellSign(id) ==
    /\ frame[id].pc = "sell_sign"
    /\ Set(id, [Step(frame[id], -1) EXCEPT
                  !.signed_sell = sign_transaction(frame[id].sell_tx)])
    /\ UNCHANGED <<nops, sent, clock, threads>>

SellSend(id) ==
    /\ frame[id].pc = "sell_send"
    /\ sent' = Submit(id, frame[id].signed_sell)
    /\ \E h \in TxHashes :
           Set(id, Return(frame[id], <<"Sell Tx Sent", h>>))
    /\ UNCHANGED <<nops, clock, threads>>

(***************************************************************************)
(* Environment: a collaborator call raises.                                 *)
(***************************************************************************)
\* what the caller receives when the call at pc raises: none of the three
\* functions has a handler, so it is the collaborator's own exception
ErrorOf(op, pc) == CallAt(pc)[1]

\* mutant: an exception of the approve's send is caught and the sell goes on
RaiseApproveIgnored(id) ==
    /\ Running(id)
    /\ LET f == frame[id]
       IN  IF f.pc = "approve_send"
           THEN Set(id, [f EXCEPT !.calls = Append(f.calls, Recorded(f.pc, -1, TRUE)),
                                  !.pc = NextPc(f.op, f.pc)])
           ELSE Set(id, [IdleFrame EXCEPT
                           !.op = f.op,
                           !.token_address = f.token_address,
                           !.calls = Forget(Append(f.calls, Recorded(f.pc, -1, TRUE))),
                           !.err = ErrorOf(f.op, f.pc),
                           !.pc = "raised"])
    /\ UNCHANGED <<nops, sent, clock, threads>>

\* mutant: the exception is swallowed and the function goes on
RaiseSwallowed(id) ==
    /\ Running(id)
    /\ LET f == frame[id]
       IN  Set(id, [f EXCEPT !.calls = Append(f.calls, Recorded(f.pc, -1, TRUE)),
                             !.pc = NextPc(f.op, f.pc)])
    /\ UNCHANGED <<nops, sent, clock, threads>>

Raise(id) ==
    /\ Running(id)
    /\ LET f == frame[id]
       IN  Set(id, [IdleFrame EXCEPT !.op = f.op,
                                    !.token_address = f.token_address,
                                    !.calls = Forget(Append(f.calls, Recorded(f.pc, -1, TRUE))),
                                    !.err = ErrorOf(f.op, f.pc),
                                    !.pc = "raised"])
    /\ UNCHANGED <<nops, sent, clock, threads>>

Next ==
    \/ \E id \in OpIds, t \in Tokens : CheckTokenBalance(id, t)
    \/ \E id \in OpIds : CheckBalanceOf(id)
    \/ \E id \in OpIds : CheckDecimals(id)
    \/ \E id \in OpIds : CheckSymbol(id)
    \/ \E id \in OpIds, t \in Tokens, a \in EthAmounts : SwapBuy(id, t, a)
    \/ \E id \in OpIds : BuyGetBlock(id)
    \/ \E id \in OpIds : BuyNonce(id)
    \/ \E id \in OpIds : BuyBuild(id)
    \/ \E id \in OpIds : BuySign(id)
    \/ \E id \in OpIds : BuySend(id)
    \/ \E id \in OpIds, t \in Tokens, p \in Percentages : SwapSell(id, t, p)
    \/ \E id \in OpIds : SellBalanceOf(id)
    \/ \E id \in OpIds : SellDecimals(id)
    \/ \E id \in OpIds : ApproveNonce(id)
    \/ \E id \in OpIds : ApproveBuild(id)
    \/ \E id \in OpIds : ApproveSign(id)
    \/ \E id \in OpIds : ApproveSend(id)
    \/ \E id \in OpIds : SellGetBlock(id)
    \/ \E id \in OpIds : SellNonce(id)
    \/ \E id \in OpIds : SellBuild(id)
    \/ \E id \in OpIds : SellSign(id)
    \/ \E id \in OpIds : SellSend(id)
    \/ \E id \in OpIds : Raise(id)

Spec == Init /\ [][Next]_vars

SpecConc == InitConc /\ [][Next]_vars

(***************************************************************************)
(* Reading the recorded calls and the ledger history.                      *)
(***************************************************************************)
\* positions in the calls of f of the calls named call made for subject of
\* that returned
Returned(f, call, of) ==
    {i \in 1..Len(f.calls) :
        /\ f.calls[i].call = call
        /\ f.calls[i].of = of
        /\ ~f.calls[i].raised}

\* positions of the calls named call, returned or raised, whatever they were for
Made(f, call) == {i \in 1..Len(f.calls) : f.calls[i].call = call}

\* positions in sent of the transactions of invocation id that carry fn
SentOf(id, fn) == {i \in 1..Len(sent) : sent[i].op = id /\ sent[i].fn = fn}

Completed(id, op) == frame[id].op = op /\ frame[id].pc = "done"

ApproveSent(id) == sent[CHOOSE i \in SentOf(id, "approve") : TRUE]

SwapSent(id) == sent[CHOOSE i \in SentOf(id, "swapExactTokensForETH") : TRUE]

(***************************************************************************)
(* C1: in every swap_sell, the swap transaction is built and submitted     *)
(* only after the submission call of the approve transaction has returned: *)
(* in the recorded calls (returned or raised) the build and the send of    *)
(* the swap come after a returned send of the approve, and in the ledger   *)
(* history the swap of an invocation comes after its approve.              *)
(***************************************************************************)
C1_ApproveBeforeSwap ==
    /\ \A id \in OpIds :
         \A i \in 1..Len(frame[id].calls) :
            (/\ frame[id].calls[i].of = "swapExactTokensForETH"
             /\ frame[id].calls[i].call \in {"build_transaction", "send_raw_transaction"})
            => \E j \in Returned(frame[id], "send_raw_transaction", "approve") : j < i
    /\ \A id \in OpIds :
         \A i \in SentOf(id, "swapExactTokensForETH") :
            \E j \in SentOf(id, "approve") : j < i

C1_Witness ==
    \E id \in OpIds :
       /\ Completed(id, "swap_sell")
       /\ SentOf(id, "swapExactTokensForETH") # {}
       /\ Returned(frame[id], "build_transaction", "swapExactTokensForETH") # {}

(***************************************************************************)
(* The ledger as seen through the answers it gave for a set of submitted   *)
(* transactions: it is synchronous when every count it returned was the    *)
(* starting count plus the number of transactions it had accepted by then. *)
(***************************************************************************)
SyncLedger(entries) ==
    \A i, j \in entries :
       /\ sent[i].count >= sent[i].seen
       /\ sent[i].count - sent[i].seen = sent[j].count - sent[j].seen

SentBy(id) == {i \in 1..Len(sent) : sent[i].op = id}

(***************************************************************************)
(* C2: in every completed swap_sell against a ledger whose transaction     *)
(* count goes up by one with each accepted submission, the approve and the *)
(* swap were submitted with two distinct nonces, the swap's being the      *)
(* approve's plus one.                                                     *)
(***************************************************************************)
C2_ConsecutiveNonces ==
    \A id \in OpIds :
       (Completed(id, "swap_sell") /\ SyncLedger(SentBy(id)))
       => /\ SwapSent(id).nonce = ApproveSent(id).nonce + 1
          /\ SwapSent(id).nonce # ApproveSent(id).nonce

C2_Witness ==
    \E id \in OpIds :
       /\ Completed(id, "swap_sell")
       /\ SyncLedger(SentBy(id))
       /\ SentOf(id, "approve") # {}
       /\ SentOf(id, "swapExactTokensForETH") # {}
       /\ SwapSent(id).nonce = ApproveSent(id).nonce + 1

(***************************************************************************)
(* C3 (as claimed): when the ledger's count does not yet reflect the       *)
(* approve just submitted, so that the read for the swap returns what the  *)
(* read for the approve returned, the swap is still submitted with the     *)
(* approve's nonce plus one.                                               *)
(***************************************************************************)
C3_LocalIncrement ==
    \A id \in OpIds :
       (Completed(id, "swap_sell") /\ SwapSent(id).count = ApproveSent(id).count)
       => /\ SwapSent(id).nonce = ApproveSent(id).nonce + 1
          /\ SwapSent(id).nonce # ApproveSent(id).nonce

(***************************************************************************)
(* C4 (as claimed): under concurrent callers on a synchronous ledger, no   *)
(* two submitted transactions of the account carry the same nonce, the     *)
(* operations being serialized for their full duration.                    *)
(***************************************************************************)
C4_NoSharedNonce ==
    SyncLedger(1..Len(sent))
    => \A i, j \in 1..Len(sent) : i # j => sent[i].nonce # sent[j].nonce

(***************************************************************************)
(* C5 (as claimed): a swap_sell called with a percentage outside [0, 100]  *)
(* makes no collaborator call at all (no balance, decimals, count or       *)
(* timestamp read, nothing built, signed or sent) and submits nothing.     *)
(***************************************************************************)
C5_InvalidPercentageRejected ==
    \A id \in OpIds :
       (frame[id].op = "swap_sell" /\ frame[id].percentage \notin 0..100)
       => /\ frame[id].calls = <<>>
          /\ \A i \in 1..Len(sent) : sent[i].op # id

(***************************************************************************)
(* C6 (as claimed): for every balance and every percentage in [0, 100] the *)
(* sell amount is floor(balance * percentage / 100) of the one balance     *)
(* read, and for percentage 100 it is that balance exactly.                *)
(***************************************************************************)
FloorShare(balance, percentage) ==
    PyInt(FALSE, DivSmall(MulSmall(balance, percentage), 100).q)

AmountComputed(f) ==
    f.op = "swap_sell" /\ Returned(f, "decimals", "token") # {}

C6_SellAmountIsFloor ==
    \A id \in OpIds :
       (AmountComputed(frame[id]) /\ frame[id].percentage \in 0..100)
       => /\ frame[id].sell_amount = FloorShare(frame[id].balance, frame[id].percentage)
          /\ frame[id].percentage = 100 => frame[id].sell_amount.mag = frame[id].balance
          /\ Cardinality(Made(frame[id], "balanceOf")) = 1

(***************************************************************************)
(* C7: in every swap_sell the amount approved for the router equals the    *)
(* amountIn of the swap; both are the sell amount computed from the one    *)
(* balance read, which is made before the approve is built and not again.  *)
(***************************************************************************)
C7_ApprovedEqualsAmountIn ==
    \A id \in OpIds :
       LET f == frame[id] IN
       /\ f.approve_tx # NoTx =>
            f.approve_tx.data.args[2] = f.sell_amount
       /\ f.pc = "approve_nonce" =>
            f.sell_amount = SellAmountOf(f.balance, f.percentage)
       /\ f.sell_tx # NoTx =>
            /\ f.sell_tx.data.args[1] = f.approve_tx.data.args[2]
            /\ f.sell_tx.data.args[1] = f.sell_amount
       /\ f.op = "swap_sell" =>
            /\ Cardinality(Made(f, "balanceOf")) <= 1
            /\ \A i \in Made(f, "balanceOf") :
                  \A j \in Made(f, "build_transaction") : i < j

C7_Witness ==
    \E id \in OpIds :
       /\ frame[id].sell_tx # NoTx
       /\ frame[id].percentage = 50
       /\ frame[id].sell_tx.data.args[1].mag # <<>>
       /\ Returned(frame[id], "send_raw_transaction", "approve") # {}

(***************************************************************************)
(* C8: the deadline of every swap transaction is the latest-block          *)
(* timestamp read in that same invocation plus 1200; the timestamp is read *)
(* in each swap_buy and each swap_sell, so two swaps of different          *)
(* invocations that read different timestamps carry different deadlines.   *)
(***************************************************************************)
BlockReads(f) == {f.calls[i].ret : i \in Returned(f, "get_block", "latest")}

C8_FreshDeadline ==
    /\ \A id \in OpIds :
          /\ frame[id].tx # NoTx =>
                BlockReads(frame[id]) = {frame[id].tx.data.args[4] - 1200}
          /\ frame[id].sell_tx # NoTx =>
                BlockReads(frame[id]) = {frame[id].sell_tx.data.args[5] - 1200}
    /\ \A i \in 1..Len(sent) :
          sent[i].fn # "approve" =>
             /\ sent[i].now \in Timestamps
             /\ sent[i].deadline = sent[i].now + 1200
    /\ \A i, j \in 1..Len(sent) :
          (/\ sent[i].fn # "approve"
           /\ sent[j].fn # "approve"
           /\ sent[i].op # sent[j].op
           /\ sent[i].now # sent[j].now)
          => sent[i].deadline # sent[j].deadline

C8_Witness ==
    \E i, j \in 1..Len(sent) :
       /\ i < j
       /\ sent[i].fn = "swapExactETHForTokens"
       /\ sent[j].fn = "swapExactTokensForETH"
       /\ sent[i].op # sent[j].op
       /\ sent[i].now < sent[j].now
       /\ sent[i].deadline < sent[j].deadline

(***************************************************************************)
(* C9 (as claimed): the transaction swap_buy builds has value exactly      *)
(* eth_amount * 10^18, the nonce the ledger returned in this invocation,   *)
(* gas 250000 and from the account address.                                *)
(***************************************************************************)
ExactWei(val) == PyInt(val.neg, Pow10Mul(NatToBig(val.num), 18 - val.scale))

C9_BuyTransaction ==
    \A id \in OpIds :
       frame[id].tx # NoTx
       => /\ frame[id].tx.value = ExactWei(frame[id].eth_amount)
          /\ {frame[id].tx.nonce} =
                {frame[id].calls[i].ret :
                    i \in Returned(frame[id], "get_transaction_count", "swapExactETHForTokens")}
          /\ frame[id].tx.gas = 250000
          /\ frame[id].tx.from = ADDRESS

(***************************************************************************)
(* C10 (as claimed): when a submission raises during swap_sell the caller  *)
(* receives ApproveSubmissionFailed if it was the approve's and            *)
(* SwapSubmissionFailed if it was the swap's.                              *)
(***************************************************************************)
LastCall(f) == f.calls[Len(f.calls)]

C10_PhaseNamed ==
    \A id \in OpIds :
       (/\ frame[id].op = "swap_sell"
        /\ frame[id].pc = "raised"
        /\ LastCall(frame[id]).call = "send_raw_transaction")
       => /\ LastCall(frame[id]).of = "approve"
                => frame[id].err = "ApproveSubmissionFailed"
          /\ LastCall(frame[id]).of = "swapExactTokensForETH"
                => frame[id].err = "SwapSubmissionFailed"

(***************************************************************************)
(* C11: swap_buy submits at most one transaction, and when a call before   *)
(* the submission (timestamp read, count read, build, sign) raises, the    *)
(* function is over at that call: the caller receives that call's          *)
(* exception and no result, no later call is made and nothing of this      *)
(* invocation reaches the ledger.                                          *)
(***************************************************************************)
Raised(f) == {i \in 1..Len(f.calls) : f.calls[i].raised}

C11_BuyAbortsUnsubmitted ==
    \A id \in OpIds :
       LET f == frame[id] IN
       f.op = "swap_buy"
       => /\ Cardinality(SentBy(id)) <= 1
          /\ Cardinality(Made(f, "send_raw_transaction")) <= 1
          /\ SentBy(id) # {} => Returned(f, "send_raw_transaction", "swapExactETHForTokens") # {}
          /\ \A i \in Raised(f) :
                /\ i = Len(f.calls)
                /\ f.pc = "raised"
                /\ f.err = f.calls[i].call
                /\ f.result = <<>>
                /\ f.calls[i].call # "send_raw_transaction"
                      => /\ Made(f, "send_raw_transaction") = {}
                         /\ SentBy(id) = {}

C11_Witness ==
    \E id \in OpIds :
       /\ frame[id].op = "swap_buy"
       /\ frame[id].pc = "raised"
       /\ LastCall(frame[id]).call = "sign_transaction"
       /\ Returned(frame[id], "build_transaction", "swapExactETHForTokens") # {}
       /\ SentBy(id) = {}

(***************************************************************************)
(* C12 (as claimed): a swap_buy called with a negative amount makes no     *)
(* collaborator call (no timestamp read, no count read, no submission) and *)
(* nothing of it reaches the ledger.                                       *)
(***************************************************************************)
C12_NegativeAmountRejected ==
    \A id \in OpIds :
       (frame[id].op = "swap_buy" /\ frame[id].eth_amount.neg)
       => /\ frame[id].calls = <<>>
          /\ SentBy(id) = {}

(***************************************************************************)
(* C13 (as claimed): decimals and symbol are read from the chain at most   *)
(* once per token: once an invocation on a token address has read them, no *)
(* later invocation on the same address reads them again.                  *)
(***************************************************************************)
C13_MetadataReadOnce ==
    \A id1, id2 \in OpIds :
       (id1 < id2 /\ frame[id1].token_address = frame[id2].token_address)
       => /\ Made(frame[id1], "decimals") # {} => Made(frame[id2], "decimals") = {}
          /\ Made(frame[id1], "symbol") # {} => Made(frame[id2], "symbol") = {}

(***************************************************************************)
(* C14: across swap_buy and swap_sell, no transaction is built a second    *)
(* time, every sign is the call right after the returned build of the same *)
(* transaction and every send the call right after its returned sign, so   *)
(* that none is signed or sent twice; what is signed is what was built, a  *)
(* built transaction whose function is over was handed to                  *)
(* sign_transaction, and the ledger holds at most one entry per            *)
(* transaction, each from a returned send. A completed swap_buy made       *)
(* exactly one submission and a completed swap_sell exactly two.           *)
(***************************************************************************)
TxCalls == {"build_transaction", "sign_transaction", "send_raw_transaction"}

\* the call at position i of f is the call named call, made for the same
\* transaction as c, and it returned
ReturnedAt(f, i, call, c) ==
    /\ i \in 1..Len(f.calls)
    /\ f.calls[i].call = call
    /\ f.calls[i].of = c.of
    /\ ~f.calls[i].raised

MadeFor(f, call, of) ==
    {i \in 1..Len(f.calls) : f.calls[i].call = call /\ f.calls[i].of = of}

Over(f) == f.pc \in {"done", "raised"}

C14_SignedOnceSentOnce ==
    \A id \in OpIds :
       LET f == frame[id] IN
       f.op \in {"swap_buy", "swap_sell"}
       => /\ \A i \in 1..Len(f.calls) :
                LET c == f.calls[i] IN
                c.call \in TxCalls
                => /\ c.call = "build_transaction"
                         => \A j \in 1..(i - 1) :
                               ~(f.calls[j].call = c.call /\ f.calls[j].of = c.of)
                   /\ c.call = "sign_transaction"
                         => ReturnedAt(f, i - 1, "build_transaction", c)
                   /\ c.call = "send_raw_transaction"
                         => ReturnedAt(f, i - 1, "sign_transaction", c)
                   /\ (c.call = "build_transaction" /\ ~c.raised /\ Over(f))
                         => (i < Len(f.calls) /\ f.calls[i + 1].call = "sign_transaction"
                                              /\ f.calls[i + 1].of = c.of)
          /\ \A k \in 1..Len(sent) :
                sent[k].op = id
                => /\ \E i \in 1..Len(f.calls) :
                         ReturnedAt(f, i, "send_raw_transaction", [of |-> sent[k].fn])
                   /\ \A l \in 1..(k - 1) :
                         ~(sent[l].op = id /\ sent[l].fn = sent[k].fn)
          /\ f.signed_tx # NoTx => f.signed_tx.of = f.tx
          /\ f.signed_approve # NoTx => f.signed_approve.of = f.approve_tx
          /\ f.signed_sell # NoTx => f.signed_sell.of = f.sell_tx
          /\ Completed(id, "swap_buy")
                => /\ Cardinality(SentBy(id)) = 1
                   /\ Cardinality(Made(f, "send_raw_transaction")) = 1
          /\ Completed(id, "swap_sell")
                => /\ Cardinality(SentBy(id)) = 2
                   /\ Cardinality(Made(f, "send_raw_transaction")) = 2

C14_Witness ==
    \E id1, id2 \in OpIds :
       /\ Completed(id1, "swap_buy")
       /\ Completed(id2, "swap_sell")
       /\ Cardinality(SentBy(id1)) = 1
       /\ Cardinality(SentBy(id2)) = 2
       /\ Len(sent) = 3

(***************************************************************************)
(* C15: the path of every swap has exactly two elements. In swap_buy it is *)
(* [WETH_ADDRESS, token_address] and the transaction carries the converted *)
(* eth_amount as its value, never amountIn as an argument; in swap_sell it *)
(* is [token_address, WETH_ADDRESS], the value of the swap transaction is  *)
(* 0 and the sell amount is the first argument of the router call.         *)
(***************************************************************************)
C15_PathAndValue ==
    \A id \in OpIds :
       LET f == frame[id] IN
       /\ f.tx # NoTx
             => /\ f.tx.data.fn = "swapExactETHForTokens"
                /\ Len(f.tx.data.args[2]) = 2
                /\ f.tx.data.args[2] = <<WETH_ADDRESS, f.token_address>>
                /\ f.tx.value # ZeroInt
                /\ f.pc = "buy_sign" => f.tx.value = _to_wei(f.eth_amount, "ether")
       /\ f.sell_tx # NoTx
             => /\ f.sell_tx.data.fn = "swapExactTokensForETH"
                /\ Len(f.sell_tx.data.args[3]) = 2
                /\ f.sell_tx.data.args[3] = <<f.token_address, WETH_ADDRESS>>
                /\ f.sell_tx.value = ZeroInt
                /\ f.sell_tx.data.args[1] = f.sell_amount

C15_Witness ==
    \E id1, id2 \in OpIds :
       /\ Completed(id1, "swap_buy")
       /\ SentOf(id1, "swapExactETHForTokens") # {}
       /\ frame[id2].op = "swap_sell"
       /\ frame[id2].sell_tx # NoTx
       /\ Len(frame[id2].sell_tx.data.args[3]) = 2
       /\ frame[id2].sell_tx.data.args[1].mag # <<>>
       /\ frame[id2].sell_tx.value = ZeroInt

(***************************************************************************)
(* C16: a swap_sell called with percentage 0 is not refused. It enters its *)
(* body, only an exception of a collaborator call ends it early, the sell  *)
(* amount it computes is 0, the approve it builds and sends approves 0,    *)
(* the swap it builds has amountIn 0, and its last step hands the swap to  *)
(* the ledger after the approve.                                           *)
(***************************************************************************)
ZeroSell(f) == f.op = "swap_sell" /\ f.percentage = 0

C16_Step ==
    \A id \in OpIds :
       LET f == frame[id]
           g == frame'[id]
       IN  /\ (f.pc = "idle" /\ ZeroSell(g)) => g.pc = SellSteps[1]
           /\ (ZeroSell(f) /\ Running(id))
              => /\ AmountComputed(f) => f.sell_amount = ZeroInt
                 /\ f.approve_tx # NoTx => f.approve_tx.data.args[2] = ZeroInt
                 /\ f.sell_tx # NoTx => f.sell_tx.data.args[1] = ZeroInt
                 /\ g.pc = "raised" => (LastCall(g).raised /\ g.err = LastCall(g).call)
                 /\ (f.pc = "approve_send" /\ g.pc = "sell_get_block")
                    => /\ f.signed_approve.of.data.args[2] = ZeroInt
                       /\ Len(sent') = Len(sent) + 1
                       /\ sent'[Len(sent')].op = id
                       /\ sent'[Len(sent')].fn = "approve"
                 /\ (f.pc = "sell_send" /\ g.pc = "done")
                    => /\ f.signed_sell.of.data.args[1] = ZeroInt
                       /\ Len(sent') = Len(sent) + 1
                       /\ sent'[Len(sent')].op = id
                       /\ sent'[Len(sent')].fn = "swapExactTokensForETH"
                       /\ SentOf(id, "approve") # {}

C16_ZeroPercentageSells == [][C16_Step]_vars

C16_Witness ==
    \E id \in OpIds :
       /\ ZeroSell(frame[id])
       /\ frame[id].pc = "sell_send"
       /\ frame[id].signed_sell.of.data.args[1] = ZeroInt
       /\ frame[id].signed_approve.of.data.args[2] = ZeroInt
       /\ SentOf(id, "approve") # {}

(***************************************************************************)
(* C17: in swap_sell the two reads made for the swap transaction, the      *)
(* count read for its nonce and the latest-block read for its deadline,    *)
(* are made only after the send of the approve has returned, so the count  *)
(* read for the swap sees the ledger with the approve in it; the count     *)
(* read for the approve is made before the approve is built, hence before  *)
(* the approve is in the ledger.                                           *)
(***************************************************************************)
C17_SwapReadsAfterApprove ==
    /\ \A id \in OpIds :
          LET f == frame[id] IN
          f.op = "swap_sell"
          => \A i \in 1..Len(f.calls) :
                LET c == f.calls[i] IN
                /\ (\/ c.call = "get_block"
                    \/ (c.call = "get_transaction_count" /\ c.of = "swapExactTokensForETH"))
                   => \E j \in 1..(i - 1) :
                         /\ f.calls[j].call = "send_raw_transaction"
                         /\ f.calls[j].of = "approve"
                         /\ ~f.calls[j].raised
                /\ (c.call = "build_transaction" /\ c.of = "approve")
                   => \E j \in 1..(i - 1) :
                         /\ f.calls[j].call = "get_transaction_count"
                         /\ f.calls[j].of = "approve"
                         /\ ~f.calls[j].raised
    /\ \A i \in 1..Len(sent) :
          /\ sent[i].fn = "approve" => sent[i].seen < i
          /\ sent[i].fn = "swapExactTokensForETH"
             => \E j \in 1..(i - 1) :
                   /\ sent[j].op = sent[i].op
                   /\ sent[j].fn = "approve"
                   /\ sent[i].seen >= j

C17_Witness ==
    \E id \in OpIds :
       /\ Completed(id, "swap_sell")
       /\ MadeFor(frame[id], "get_transaction_count", "swapExactTokensForETH") # {}
       /\ Made(frame[id], "get_block") # {}
       /\ \E i \in SentOf(id, "swapExactTokensForETH") :
             \E j \in SentOf(id, "approve") : sent[i].seen >= j /\ sent[j].seen < j

(***************************************************************************)
(* C18: when a call of swap_sell up to and including the send of the       *)
(* approve raises (balance or decimals read, count read, build, sign or    *)
(* send of the approve), the function is over at that call: the caller     *)
(* receives the exception and no result, no timestamp or count is read for *)
(* the swap, no swap is built, signed or sent, and the ledger holds no     *)
(* swap of this invocation.                                                *)
(***************************************************************************)
ApprovePhase(c) == c.of \in {"token", "approve"}

C18_FailedApproveNoSwap ==
    \A id \in OpIds :
       LET f == frame[id] IN
       f.op = "swap_sell"
       => \A i \in Raised(f) :
             /\ i = Len(f.calls)
             /\ f.pc = "raised"
             /\ f.err = f.calls[i].call
             /\ f.result = <<>>
             /\ ApprovePhase(f.calls[i])
                => /\ \A j \in 1..Len(f.calls) : ApprovePhase(f.calls[j])
                   /\ SentOf(id, "swapExactTokensForETH") = {}

C18_Witness ==
    \E id \in OpIds :
       /\ frame[id].op = "swap_sell"
       /\ frame[id].pc = "raised"
       /\ LastCall(frame[id]).call = "send_raw_transaction"
       /\ LastCall(frame[id]).of = "approve"
       /\ Returned(frame[id], "sign_transaction", "approve") # {}
       /\ SentOf(id, "swapExactTokensForETH") = {}

(***************************************************************************)
(* C19: check_token_balance only reads. The calls it makes are balanceOf,  *)
(* decimals and symbol, in that order; it never reads the transaction      *)
(* count, builds, signs or sends; no entry of the ledger history is its    *)
(* own, and no step of it, its invocation included, changes the history,   *)
(* on which the account's nonce depends.                                   *)
(***************************************************************************)
CallNames(f) == [i \in 1..Len(f.calls) |-> f.calls[i].call]

C19_Reads ==
    \A id \in OpIds :
       frame[id].op = "check_token_balance"
       => /\ CallNames(frame[id])
                = SubSeq(<<"balanceOf", "decimals", "symbol">>, 1, Len(frame[id].calls))
          /\ SentBy(id) = {}

C19_Step ==
    \A id \in OpIds :
       (frame'[id].op = "check_token_balance" /\ frame'[id] # frame[id])
       => sent' = sent

C19_BalanceCheckOnlyReads == []C19_Reads /\ [][C19_Step]_vars

C19_Witness ==
    \E id1, id2 \in OpIds :
       /\ id1 < id2
       /\ SentBy(id1) # {}
       /\ Completed(id2, "check_token_balance")
       /\ frame[id2].result # <<>>
       /\ Len(frame[id2].calls) = 3
       /\ Len(sent) = Cardinality(SentBy(id1))

====
